---- MODULE Spec2Model ----
(***************************************************************************)
(* Model of allensdk.brain_observatory.behavior.project_apis.data_io       *)
(* .behavior_project_cloud_api: version_check, literal_col_eval and the    *)
(* BehaviorProjectCloudApi constructor and artifact getters.               *)
(*                                                                         *)
(* Text is modelled as what the code reads: a version string is the        *)
(* sequence of its characters, the text of a table cell is the sequence of *)
(* the lexical tokens of the Python literal it holds.                      *)
(***************************************************************************)
EXTENDS Naturals, Integers, Sequences, FiniteSets, TLC

VARIABLES
    \* ---- version_check(pipeline_versions, sdk_version, compatibility)
    pipeline_versions,   \* the manifest's list of {name, version}
    sdk_version,         \* the running client version (text)
    compatibility,       \* compatibility["pipeline_versions"]
    vc_pc,               \* position in version_check
    pipeline_version,    \* local: the list of AllenSDK entries, then its version
    version_limits,      \* local: [min, max) as text
    consulted,           \* whether the compatibility table has been read
    \* ---- literal_col_eval(df, columns)
    df,                  \* the DataFrame passed in (mutated in place)
    df_in,               \* the DataFrame as it was passed in
    col_i,               \* index of the next column of the loop
    eval_pc,             \* position in literal_col_eval
    \* ---- BehaviorProjectCloudApi(cache, skip_version_check)
    manifest,            \* cache._manifest: metadata_file_names, _data_pipeline
    csv,                 \* the metadata files of the bucket, by table name
    running_version,     \* allensdk.__version__
    entry,               \* "__init__" or "from_s3_cache"
    skip_version_check,  \* the constructor's argument
    api_pc,              \* position in __init__
    api_tables,          \* the table attributes the object holds
    log,                 \* what the constructor did, in order
    \* ---- get_behavior_session / get_behavior_ophys_experiment
    behavior_only_session_table,
    experiment_table,
    callers,             \* the threads that call a getter
    call,                \* per thread: position, arguments, outcome
    lock,                \* cache: per file id, the thread populating it
    cached,              \* cache: the file ids installed in the cache
    downloads            \* cache: per file id, the number of downloads

vcVars == <<pipeline_versions, sdk_version, compatibility, vc_pc,
            pipeline_version, version_limits, consulted>>
evalVars == <<df, df_in, col_i, eval_pc>>
ctorVars == <<manifest, csv, running_version, entry, skip_version_check,
              api_pc, api_tables, log>>
getVars == <<behavior_only_session_table, experiment_table, callers, call,
             lock, cached, downloads>>
vars == <<vcVars, evalVars, ctorVars, getVars>>

None == [kind |-> "null"]

(***************************************************************************)
(* Bounds of the model.                                                    *)
(***************************************************************************)
MaxEntries == 2
MaxRows == 2
NThreads == 2

RECURSIVE SeqsUpTo(_, _)
SeqsUpTo(S, n) ==
    IF n = 0 THEN {<<>>}
    ELSE LET shorter == SeqsUpTo(S, n - 1)
         IN  shorter \cup {Append(s, e) : s \in {q \in shorter : Len(q) = n - 1}, e \in S}

(***************************************************************************)
(* Version text.  semver.VersionInfo.parse accepts, over the characters    *)
(* used here (digits and "."), exactly major.minor.patch with each part a  *)
(* decimal number without a leading zero.                                  *)
(***************************************************************************)
DigitVal ==
    ("0" :> 0) @@ ("1" :> 1) @@ ("2" :> 2) @@ ("3" :> 3) @@ ("4" :> 4) @@
    ("5" :> 5) @@ ("6" :> 6) @@ ("7" :> 7) @@ ("8" :> 8) @@ ("9" :> 9)

RECURSIVE SplitDots(_)
SplitDots(s) ==
    IF \A i \in 1..Len(s) : s[i] # "."
    THEN <<s>>
    ELSE LET k == CHOOSE i \in 1..Len(s) :
                      s[i] = "." /\ \A j \in 1..(i - 1) : s[j] # "."
         IN  <<SubSeq(s, 1, k - 1)>> \o SplitDots(SubSeq(s, k + 1, Len(s)))

IsNumericId(c) ==
    /\ Len(c) >= 1
    /\ \A i \in 1..Len(c) : c[i] \in DOMAIN DigitVal
    /\ (Len(c) > 1 => c[1] # "0")

RECURSIVE ToInt(_)
ToInt(c) ==
    IF Len(c) = 0 THEN 0
    ELSE 10 * ToInt(SubSeq(c, 1, Len(c) - 1)) + DigitVal[c[Len(c)]]

VersionInfoParse(s) ==
    LET parts == SplitDots(s)
    IN  IF Len(parts) = 3 /\ \A i \in 1..3 : IsNumericId(parts[i])
        THEN [ok |-> TRUE, major |-> ToInt(parts[1]),
              minor |-> ToInt(parts[2]), patch |-> ToInt(parts[3])]
        ELSE [ok |-> FALSE, major |-> 0, minor |-> 0, patch |-> 0]

\* The lexical order of two texts, characters compared by their code: what
\* comparing the version strings themselves would give.
RECURSIVE LexLess(_, _)
LexLess(a, b) ==
    IF Len(b) = 0 THEN FALSE
    ELSE IF Len(a) = 0 THEN TRUE
    ELSE LET ca == IF a[1] = "." THEN 0 - 1 ELSE DigitVal[a[1]]
             cb == IF b[1] = "." THEN 0 - 1 ELSE DigitVal[b[1]]
         IN  IF ca # cb THEN ca < cb ELSE LexLess(Tail(a), Tail(b))

VersionLessLexical(a, b) == LexLess(a, b)

\* VersionInfo.compare on (major, minor, patch): a < b.
VersionLess(a, b) ==
    LET x == VersionInfoParse(a)
        y == VersionInfoParse(b)
    IN  \/ x.major < y.major
        \/ x.major = y.major /\ x.minor < y.minor
        \/ x.major = y.major /\ x.minor = y.minor /\ x.patch < y.patch

V_1_0_0 == <<"1", ".", "0", ".", "0">>
V_2_8_9 == <<"2", ".", "8", ".", "9">>
V_2_9_0 == <<"2", ".", "9", ".", "0">>
V_2_9_1 == <<"2", ".", "9", ".", "1">>
V_2_9_5 == <<"2", ".", "9", ".", "5">>
V_2_10_0 == <<"2", ".", "1", "0", ".", "0">>
V_3_0_0 == <<"3", ".", "0", ".", "0">>
V_10_0_0 == <<"1", "0", ".", "0", ".", "0">>
V_2_9 == <<"2", ".", "9">>

\* COMPATIBILITY["pipeline_versions"]: [min inclusive, max exclusive)
COMPATIBILITY ==
    (V_2_9_0 :> [AllenSDK |-> <<V_2_9_0, V_3_0_0>>]) @@
    (V_2_10_0 :> [AllenSDK |-> <<V_2_9_0, V_3_0_0>>])

\* A table a caller passes as the `compatibility` argument.
OtherCompatibility ==
    (V_1_0_0 :> [AllenSDK |-> <<V_2_9_5, V_2_10_0>>])

CompatibilityTables == {COMPATIBILITY, OtherCompatibility}
ClientVersions ==
    {V_2_8_9, V_2_9_0, V_2_9_5, V_2_10_0, V_3_0_0, V_10_0_0, V_2_9}
ManifestEntries ==
    [name : {"AllenSDK", "other"},
     version : {V_1_0_0, V_2_9_0, V_2_10_0, V_2_9_1}]

(***************************************************************************)
(* version_check                                                           *)
(***************************************************************************)
VersionException == "BehaviorCloudCacheVersionException"

AllenSDKEntriesAll(pv) == pv

\* [i for i in pipeline_versions if "AllenSDK" == i["name"]]
AllenSDKEntries(pv) == SelectSeq(pv, LAMBDA i : i.name = "AllenSDK")

UnknownVersionPasses == "returned"

\* the raise of lines 63-64, for a version without an entry
UnknownVersion == VersionException

\* pipeline_version in compatibility["pipeline_versions"]
HasCompatibility(compat, version) == version \in DOMAIN compat

OutsideLimitsInclusiveMax(sdk, limits) ==
    VersionLess(sdk, limits[1]) \/ VersionLess(limits[2], sdk)

OutsideLimitsLexical(sdk, limits) ==
    VersionLessLexical(sdk, limits[1]) \/ ~VersionLessLexical(sdk, limits[2])

\* (sdk_version < smin) | (sdk_version >= smax)
OutsideLimits(sdk, limits) ==
    VersionLess(sdk, limits[1]) \/ ~VersionLess(sdk, limits[2])

\* The outcome of one call of version_check.
VersionCheck(pv, sdk, compat) ==
    LET found == AllenSDKEntries(pv)
    IN  IF Len(found) # 1 THEN VersionException
        ELSE IF ~HasCompatibility(compat, found[1].version) THEN UnknownVersion
        ELSE LET limits == compat[found[1].version].AllenSDK
             IN  IF ~VersionInfoParse(sdk).ok THEN "ValueError"
                 ELSE IF OutsideLimits(sdk, limits) THEN VersionException
                 ELSE "returned"

vcIdle ==
    /\ pipeline_versions = <<>> /\ sdk_version = <<>> /\ compatibility = <<>>
    /\ vc_pc = "idle" /\ pipeline_version = <<>> /\ version_limits = <<>>
    /\ consulted = FALSE

InitVC ==
    /\ pipeline_versions \in SeqsUpTo(ManifestEntries, MaxEntries)
    /\ sdk_version \in ClientVersions
    /\ compatibility \in CompatibilityTables
    /\ vc_pc = "select"
    /\ pipeline_version = <<>>
    /\ version_limits = <<>>
    /\ consulted = FALSE

\* lines 54-61
VC_SelectEntry ==
    /\ vc_pc = "select"
    /\ LET found == AllenSDKEntries(pipeline_versions)
       IN  IF Len(found) # 1
           THEN /\ pipeline_version' = found
                /\ vc_pc' = VersionException
           ELSE /\ pipeline_version' = found[1].version
                /\ vc_pc' = "lookup"
    /\ UNCHANGED <<pipeline_versions, sdk_version, compatibility,
                   version_limits, consulted>>
    /\ UNCHANGED <<evalVars, ctorVars, getVars>>

\* lines 62-65
VC_Lookup ==
    /\ vc_pc = "lookup"
    /\ consulted' = TRUE
    /\ IF ~HasCompatibility(compatibility, pipeline_version)
       THEN /\ vc_pc' = UnknownVersion
            /\ UNCHANGED version_limits
       ELSE /\ version_limits' = compatibility[pipeline_version].AllenSDK
            /\ vc_pc' = "limits"
    /\ UNCHANGED <<pipeline_versions, sdk_version, compatibility,
                   pipeline_version>>
    /\ UNCHANGED <<evalVars, ctorVars, getVars>>

\* lines 66-79
VC_CheckLimits ==
    /\ vc_pc = "limits"
    /\ vc_pc' = IF ~VersionInfoParse(sdk_version).ok THEN "ValueError"
                ELSE IF OutsideLimits(sdk_version, version_limits)
                     THEN VersionException
                     ELSE "returned"
    /\ UNCHANGED <<pipeline_versions, sdk_version, compatibility,
                   pipeline_version, version_limits, consulted>>
    /\ UNCHANGED <<evalVars, ctorVars, getVars>>

NextVC == VC_SelectEntry \/ VC_Lookup \/ VC_CheckLimits

(***************************************************************************)
(* ast.literal_eval on the text of a cell.  The text is the sequence of    *)
(* its tokens: "[", "]", ",", integer literals and string literals.        *)
(* Accepted: an integer, a string (adjacent string literals concatenate),  *)
(* a list display of accepted values with an optional trailing comma, and  *)
(* at top level a tuple written without parentheses.  Anything else is a   *)
(* SyntaxError or a ValueError: the call raises.                           *)
(***************************************************************************)
IntTokens == ("1" :> 1) @@ ("2" :> 2) @@ ("3" :> 3) @@ ("7" :> 7)
StrTokens ==
    ("'Sst-IRES-Cre'" :> "Sst-IRES-Cre") @@ ("'a'" :> "a") @@ ("'b'" :> "b")

PyInt(v) == [kind |-> "int", v |-> v]
PyStr(s) == [kind |-> "str", s |-> s]
PyList(items) == [kind |-> "list", items |-> items]
PyTuple(items) == [kind |-> "tuple", items |-> items]
Text(toks) == [kind |-> "text", toks |-> toks]

ParseFail == [ok |-> FALSE, val |-> None, items |-> <<>>, next |-> 0]
ParsedVal(v, n) == [ok |-> TRUE, val |-> v, items |-> <<>>, next |-> n]
ParsedItems(xs, n) == [ok |-> TRUE, val |-> None, items |-> xs, next |-> n]

RECURSIVE ParseStr(_, _, _)
ParseStr(s, i, acc) ==
    IF i <= Len(s) /\ s[i] \in DOMAIN StrTokens
    THEN ParseStr(s, i + 1, acc \o StrTokens[s[i]])
    ELSE ParsedVal(PyStr(acc), i)

RECURSIVE ParseAtom(_, _)
RECURSIVE ParseItems(_, _, _)
ParseAtom(s, i) ==
    IF i > Len(s) THEN ParseFail
    ELSE IF s[i] \in DOMAIN IntTokens THEN ParsedVal(PyInt(IntTokens[s[i]]), i + 1)
    ELSE IF s[i] \in DOMAIN StrTokens THEN ParseStr(s, i + 1, StrTokens[s[i]])
    ELSE IF s[i] = "["
         THEN LET r == ParseItems(s, i + 1, <<>>)
              IN  IF r.ok THEN ParsedVal(PyList(r.items), r.next) ELSE ParseFail
    ELSE ParseFail

\* The elements of a list display, from position i to its closing bracket.
ParseItems(s, i, acc) ==
    IF i > Len(s) THEN ParseFail
    ELSE IF s[i] = "]" THEN ParsedItems(acc, i + 1)
    ELSE LET a == ParseAtom(s, i)
         IN  IF ~a.ok \/ a.next > Len(s) THEN ParseFail
             ELSE IF s[a.next] = "," THEN ParseItems(s, a.next + 1, Append(acc, a.val))
             ELSE IF s[a.next] = "]" THEN ParsedItems(Append(acc, a.val), a.next + 1)
             ELSE ParseFail

\* The further elements of a top-level tuple, from position i to the end.
RECURSIVE ParseTuple(_, _, _)
ParseTuple(s, i, acc) ==
    IF i > Len(s) THEN ParsedItems(acc, i)
    ELSE LET a == ParseAtom(s, i)
         IN  IF ~a.ok THEN ParseFail
             ELSE IF a.next > Len(s) THEN ParsedItems(Append(acc, a.val), a.next)
             ELSE IF s[a.next] = "," THEN ParseTuple(s, a.next + 1, Append(acc, a.val))
             ELSE ParseFail

\* ast.literal_eval(x): [ok, val]; ~ok is a raised SyntaxError or ValueError.
LiteralEval(s) ==
    LET a == ParseAtom(s, 1)
    IN  IF ~a.ok THEN [ok |-> FALSE, val |-> None]
        ELSE IF a.next > Len(s) THEN [ok |-> TRUE, val |-> a.val]
        ELSE IF s[a.next] = ","
             THEN LET r == ParseTuple(s, a.next + 1, <<a.val>>)
                  IN  IF r.ok THEN [ok |-> TRUE, val |-> PyTuple(r.items)]
                      ELSE [ok |-> FALSE, val |-> None]
        ELSE [ok |-> FALSE, val |-> None]

(***************************************************************************)
(* literal_col_eval.  A DataFrame is [columns, rows]: the column names and *)
(* the rows in order, each row a function from column name to cell.        *)
(***************************************************************************)
Columns == <<"ophys_experiment_id", "ophys_container_id", "driver_line">>

HasColumn(d, c) == \E k \in 1..Len(d.columns) : d.columns[k] = c

NotNull(x) == x.kind # "null"

\* converter(x): raises when literal_eval does.
ConverterRaises(x) == x.kind = "text" /\ ~LiteralEval(x.toks).ok
Converter(x) == IF x.kind = "text" THEN LiteralEval(x.toks).val ELSE x

\* df[column][df[column].notnull()].apply(converter) raises
ApplyRaises(d, c) ==
    \E i \in 1..Len(d.rows) : NotNull(d.rows[i][c]) /\ ConverterRaises(d.rows[i][c])

AssignColumnFirstRowOnly(d, c) ==
    [d EXCEPT !.rows = [i \in 1..Len(d.rows) |->
        [d.rows[i] EXCEPT ![c] = IF NotNull(@) /\ i = 1 THEN Converter(@) ELSE @]]]

\* df.loc[df[column].notnull(), column] = <the converted cells>
AssignColumn(d, c) ==
    [d EXCEPT !.rows = [i \in 1..Len(d.rows) |->
        [d.rows[i] EXCEPT ![c] = IF NotNull(@) THEN Converter(@) ELSE @]]]

\* The whole call: [ok, df]; ~ok is the exception of the first failing column,
\* and df is then the DataFrame as the call left it.
RECURSIVE LiteralColEvalFrom(_, _)
LiteralColEvalFrom(d, k) ==
    IF k > Len(Columns) THEN [ok |-> TRUE, df |-> d]
    ELSE IF ~HasColumn(d, Columns[k]) THEN LiteralColEvalFrom(d, k + 1)
    ELSE IF ApplyRaises(d, Columns[k]) THEN [ok |-> FALSE, df |-> d]
    ELSE LiteralColEvalFrom(AssignColumn(d, Columns[k]), k + 1)

LiteralColEval(d) == LiteralColEvalFrom(d, 1)

SessionColumns ==
    <<"ophys_session_id", "ophys_experiment_id", "ophys_container_id",
      "driver_line", "session_type">>

SessionRow(sid, exp, cont, driver, type) ==
    [c \in {SessionColumns[k] : k \in 1..Len(SessionColumns)} |->
        CASE c = "ophys_session_id" -> sid
          [] c = "ophys_experiment_id" -> exp
          [] c = "ophys_container_id" -> cont
          [] c = "driver_line" -> driver
          [] OTHER -> type]

T_SstList == <<"[", "'Sst-IRES-Cre'", "]">>
T_List12 == <<"[", "1", ",", "2", "]">>
T_List3 == <<"[", "3", "]">>
T_List1 == <<"[", "1", "]">>
T_ListAB == <<"[", "'a'", ",", "'b'", ",", "]">>
T_Nested == <<"[", "[", "1", "]", ",", "[", "]", "]">>
T_Tuple12 == <<"1", ",", "2">>
T_StrAB == <<"'a'", "'b'">>
T_Unclosed == <<"[", "'a'">>
T_TwoCommas == <<"[", "1", ",", ",", "]">>
T_Subscript == <<"[", "1", "]", "[", "1", "]">>

EvalRows ==
    { SessionRow(PyInt(1), Text(T_List12), Text(T_List3), Text(T_SstList), Text(T_List1)),
      SessionRow(PyInt(2), None, None, None, None),
      SessionRow(PyInt(3), PyInt(7), PyInt(3), Text(T_ListAB), None),
      SessionRow(PyInt(4), Text(T_List12), None, Text(T_Unclosed), Text(T_List1)),
      SessionRow(PyInt(5), Text(T_TwoCommas), Text(T_List3), Text(T_SstList), None),
      SessionRow(PyInt(6), Text(T_Tuple12), Text(<<"2">>), Text(T_StrAB), Text(T_Unclosed)),
      SessionRow(PyInt(7), Text(T_Nested), Text(T_Subscript), Text(T_SstList), None) }

EvalSchemas ==
    { SessionColumns,
      <<"ophys_session_id", "driver_line", "session_type">>,
      <<"ophys_session_id", "session_type", "ophys_experiment_id", "driver_line">> }

Restrict(row, cols) == [c \in {cols[k] : k \in 1..Len(cols)} |-> row[c]]

Frame(cols, rows) ==
    [columns |-> cols, rows |-> [i \in 1..Len(rows) |-> Restrict(rows[i], cols)]]

EmptyFrame == [columns |-> <<>>, rows |-> <<>>]

evalIdle == df = EmptyFrame /\ df_in = EmptyFrame /\ col_i = 0 /\ eval_pc = "idle"

InitEval ==
    /\ \E cols \in EvalSchemas, rows \in SeqsUpTo(EvalRows, MaxRows) :
           df = Frame(cols, rows)
    /\ df_in = df
    /\ col_i = 1
    /\ eval_pc = "loop"

\* lines 91-94: one iteration of `for column in columns`
Eval_Column ==
    /\ eval_pc = "loop"
    /\ col_i <= Len(Columns)
    /\ IF ~HasColumn(df, Columns[col_i])
       THEN col_i' = col_i + 1 /\ UNCHANGED <<df, eval_pc>>
       ELSE IF ApplyRaises(df, Columns[col_i])
            THEN eval_pc' = "raised" /\ UNCHANGED <<df, col_i>>
            ELSE /\ df' = AssignColumn(df, Columns[col_i])
                 /\ col_i' = col_i + 1
                 /\ UNCHANGED eval_pc
    /\ UNCHANGED df_in
    /\ UNCHANGED <<vcVars, ctorVars, getVars>>

\* line 95
Eval_Return ==
    /\ eval_pc = "loop"
    /\ col_i > Len(Columns)
    /\ eval_pc' = "returned"
    /\ UNCHANGED <<df, df_in, col_i>>
    /\ UNCHANGED <<vcVars, ctorVars, getVars>>

NextEval == Eval_Column \/ Eval_Return

(***************************************************************************)
(* BehaviorProjectCloudApi.__init__ and from_s3_cache                      *)
(***************************************************************************)
ExpectedMetadata ==
    {"behavior_session_table", "ophys_session_table", "ophys_experiment_table"}

NoTable == [held |-> FALSE, df |-> EmptyFrame]
Held(d) == [held |-> TRUE, df |-> d]

LogEntry(op, arg) == [op |-> op, arg |-> arg]

\* The ways a caller obtains an object: through from_s3_cache, which has no
\* skip argument, or through the constructor, with the argument left out or given.
Entries ==
    { [via |-> "from_s3_cache", skip_arg |-> "absent"],
      [via |-> "__init__", skip_arg |-> "absent"],
      [via |-> "__init__", skip_arg |-> "False"],
      [via |-> "__init__", skip_arg |-> "True"] }

SkipArgumentDefaultTrue(e) == e.skip_arg # "False"

\* skip_version_check as __init__ receives it: its default is False, and
\* from_s3_cache calls BehaviorProjectCloudApi(cache).
SkipArgument(e) == e.via = "__init__" /\ e.skip_arg = "True"

ManifestNames ==
    { [is_none |-> TRUE, names |-> {}],
      [is_none |-> FALSE, names |-> ExpectedMetadata],
      [is_none |-> FALSE, names |-> {"behavior_session_table", "ophys_session_table"}] }

DataPipelines ==
    { <<[name |-> "AllenSDK", version |-> V_2_9_0]>>,
      <<[name |-> "other", version |-> V_2_9_0],
        [name |-> "AllenSDK", version |-> V_2_10_0]>>,
      <<[name |-> "AllenSDK", version |-> V_2_9_1]>>,
      <<>> }

RunningVersions == {V_2_8_9, V_2_9_5, V_3_0_0}

SessionCsvs ==
    { Frame(SessionColumns,
            <<SessionRow(PyInt(1), Text(T_List12), Text(T_List3), Text(T_SstList), Text(T_List1)),
              SessionRow(PyInt(2), None, None, None, None)>>),
      Frame(SessionColumns,
            <<SessionRow(PyInt(1), Text(T_List12), Text(T_List3), Text(T_SstList), None),
              SessionRow(PyInt(4), Text(T_List12), None, Text(T_Unclosed), None)>>) }

BehaviorColumns == <<"behavior_session_id", "file_id", "ophys_experiment_id">>
ExperimentColumns == <<"ophys_experiment_id", "file_id", "driver_line">>

BehaviorRow(bsid, fid, exp) ==
    [c \in {BehaviorColumns[k] : k \in 1..Len(BehaviorColumns)} |->
        CASE c = "behavior_session_id" -> bsid
          [] c = "file_id" -> fid
          [] OTHER -> exp]

ExperimentRow(oeid, fid, driver) ==
    [c \in {ExperimentColumns[k] : k \in 1..Len(ExperimentColumns)} |->
        CASE c = "ophys_experiment_id" -> oeid
          [] c = "file_id" -> fid
          [] OTHER -> driver]

BehaviorCsvs ==
    { Frame(BehaviorColumns,
            <<BehaviorRow(PyInt(1), PyInt(10), None),
              BehaviorRow(PyInt(2), None, Text(T_List12))>>),
      Frame(BehaviorColumns,
            <<BehaviorRow(PyInt(1), PyInt(10), None),
              BehaviorRow(PyInt(2), None, Text(T_TwoCommas))>>) }

ExperimentCsvs ==
    { Frame(ExperimentColumns,
            <<ExperimentRow(PyInt(1), PyInt(20), Text(T_SstList)),
              ExperimentRow(PyInt(2), PyInt(30), Text(T_ListAB))>>),
      Frame(ExperimentColumns,
            <<ExperimentRow(PyInt(1), PyInt(20), Text(T_SstList)),
              ExperimentRow(PyInt(2), PyInt(30), Text(T_Unclosed))>>) }

NoTables ==
    [a \in {"_session_table", "_behavior_only_session_table", "_experiment_table"}
        |-> NoTable]

ctorIdle ==
    /\ manifest = [metadata_file_names |-> [is_none |-> TRUE, names |-> {}],
                   data_pipeline |-> <<>>]
    /\ csv = <<>> /\ running_version = <<>>
    /\ entry = [via |-> "none", skip_arg |-> "absent"]
    /\ skip_version_check = FALSE
    /\ api_pc = "idle" /\ api_tables = NoTables /\ log = <<>>

InitCtor ==
    /\ \E names \in ManifestNames, dp \in DataPipelines :
           manifest = [metadata_file_names |-> names, data_pipeline |-> dp]
    /\ \E s \in SessionCsvs, b \in BehaviorCsvs, e \in ExperimentCsvs :
           csv = [n \in ExpectedMetadata |->
                     CASE n = "ophys_session_table" -> s
                       [] n = "behavior_session_table" -> b
                       [] OTHER -> e]
    /\ running_version \in RunningVersions
    /\ entry \in Entries
    /\ skip_version_check = FALSE
    /\ api_pc = "call"
    /\ api_tables = NoTables
    /\ log = <<>>

\* lines 113 and 161-163: the call binds skip_version_check
Ctor_Enter ==
    /\ api_pc = "call"
    /\ skip_version_check' = SkipArgument(entry)
    /\ api_pc' = "metadata"
    /\ UNCHANGED <<manifest, csv, running_version, entry, api_tables, log>>
    /\ UNCHANGED <<vcVars, evalVars, getVars>>

\* lines 114-127
Ctor_CheckMetadata ==
    /\ api_pc = "metadata"
    /\ api_pc' = IF manifest.metadata_file_names.is_none THEN "RuntimeError"
                 ELSE IF manifest.metadata_file_names.names # ExpectedMetadata
                      THEN "RuntimeError"
                      ELSE "version_check"
    /\ UNCHANGED <<manifest, csv, running_version, entry, skip_version_check,
                   api_tables, log>>
    /\ UNCHANGED <<vcVars, evalVars, getVars>>

\* lines 128-130
Ctor_VersionCheck ==
    /\ api_pc = "version_check"
    /\ IF ~skip_version_check
       THEN LET r == VersionCheck(manifest.data_pipeline, running_version, COMPATIBILITY)
            IN  /\ log' = Append(log, LogEntry("version_check", r))
                /\ api_pc' = IF r = "returned" THEN "_get_session_table" ELSE r
       ELSE /\ api_pc' = "_get_session_table"
            /\ UNCHANGED log
    /\ UNCHANGED <<manifest, csv, running_version, entry, skip_version_check,
                   api_tables>>
    /\ UNCHANGED <<vcVars, evalVars, getVars>>

\* One _get_*_table: download_metadata(name), read_csv, literal_col_eval, and
\* the assignment of the attribute when nothing raised.
LoadTable(name, attr, next) ==
    LET r == LiteralColEval(csv[name])
    IN  /\ log' = Append(log, LogEntry("download_metadata", name))
        /\ IF r.ok
           THEN /\ api_tables' = [api_tables EXCEPT ![attr] = Held(r.df)]
                /\ api_pc' = next
           ELSE /\ api_pc' = "literal_eval raised"
                /\ UNCHANGED api_tables
        /\ UNCHANGED <<manifest, csv, running_version, entry, skip_version_check>>

\* line 131, lines 236-239
Ctor_GetSessionTable ==
    /\ api_pc = "_get_session_table"
    /\ LoadTable("ophys_session_table", "_session_table",
                 "_get_behavior_only_session_table")
    /\ UNCHANGED <<vcVars, evalVars, getVars>>

\* line 132, lines 254-258
Ctor_GetBehaviorOnlySessionTable ==
    /\ api_pc = "_get_behavior_only_session_table"
    /\ LoadTable("behavior_session_table", "_behavior_only_session_table",
                 "_get_experiment_table")
    /\ UNCHANGED <<vcVars, evalVars, getVars>>

\* line 133, lines 281-285
Ctor_GetExperimentTable ==
    /\ api_pc = "_get_experiment_table"
    /\ LoadTable("ophys_experiment_table", "_experiment_table", "constructed")
    /\ UNCHANGED <<vcVars, evalVars, getVars>>

NextCtor ==
    \/ Ctor_Enter
    \/ Ctor_CheckMetadata
    \/ Ctor_VersionCheck
    \/ Ctor_GetSessionTable
    \/ Ctor_GetBehaviorOnlySessionTable
    \/ Ctor_GetExperimentTable

(***************************************************************************)
(* get_behavior_session and get_behavior_ophys_experiment                  *)
(***************************************************************************)
file_id_column == "file_id"

\* table.query(f"{column}=={id}"): the matching rows, in order
Query(table, column, id) ==
    SelectSeq(table.rows, LAMBDA r : r[column] = PyInt(id))

DecimalText == (10 :> "10") @@ (20 :> "20") @@ (30 :> "30") @@ (40 :> "40")

Resolved(fid, n) == [outcome |-> "download_data", file_id |-> fid, lookups |-> n]
Raised(error, n) == [outcome |-> error, file_id |-> "", lookups |-> n]

FileIdOfNoInt(x, n) ==
    IF x.kind = "null" THEN Resolved("nan", n) ELSE Resolved(DecimalText[x.v], n)

\* str(int(row[file_id_column])) of a matched row: int() of NaN raises
FileIdOf(x, n) ==
    IF x.kind = "null" THEN Raised("ValueError", n) ELSE Resolved(DecimalText[x.v], n)

FirstListedLast(ref) == ref.items[Len(ref.items)]

\* row.ophys_experiment_id[0] of a list or tuple of experiment ids
FirstListed(ref) == ref.items[1]

\* lines 203-206: the referenced experiment's row, squeezed, and its file id.
\* With zero or several matching rows row[file_id_column] is a Series of
\* that many values, and int() of it raises TypeError.
FollowReference(oeid, et) ==
    LET rows == Query(et, "ophys_experiment_id", oeid.v)
    IN  IF Len(rows) # 1 THEN Raised("TypeError", 2)
        ELSE FileIdOf(rows[1][file_id_column], 2)

WrongCountOnlyZero(rows) == Len(rows) = 0

\* row.shape[0] != 1
WrongCount(rows) == Len(rows) # 1

\* The dtype read_csv gives a column: numeric when every cell is empty or an
\* integer, object otherwise.  literal_col_eval leaves the dtype as it is.
NumericColumn(table, column) ==
    \A k \in 1..Len(table.rows) : table.rows[k][column].kind \in {"null", "int"}

\* line 202 where the cell is NaN or an integer.  Out of a numeric column
\* the squeezed row holds a numpy scalar and [0] raises IndexError; out of
\* an object column it holds a Python float or int and [0] raises TypeError.
SubscriptOfScalar(table) ==
    IF NumericColumn(table, "ophys_experiment_id") THEN "IndexError" ELSE "TypeError"

\* lines 202-203 where the cell is a str: [0] is its first character, and
\* the query text "ophys_experiment_id==<character>" is evaluated.  Every
\* string of StrTokens, and every concatenation of them, is not empty and
\* starts with a letter that names no column, so the query, the second one
\* of the call, raises UndefinedVariableError.
QueryOfFirstCharacter(ref) == Raised("UndefinedVariableError", 2)

\* lines 191-206.  The items of a list or tuple of references are integers.
ResolveBehaviorSession(bt, et, behavior_session_id) ==
    LET rows == Query(bt, "behavior_session_id", behavior_session_id)
    IN  IF WrongCount(rows) THEN Raised("RuntimeError", 1)
        ELSE LET row == rows[1]
                 ref == row["ophys_experiment_id"]
             IN  IF NotNull(row[file_id_column])
                 THEN FileIdOf(row[file_id_column], 1)
                 ELSE IF ref.kind \in {"null", "int"}
                      THEN Raised(SubscriptOfScalar(bt), 1)
                 ELSE IF ref.kind = "str" THEN QueryOfFirstCharacter(ref)
                 ELSE IF Len(ref.items) = 0 THEN Raised("IndexError", 1)
                 ELSE FollowReference(FirstListed(ref), et)

\* lines 223-233
ResolveExperiment(et, ophys_experiment_id) ==
    LET rows == Query(et, "ophys_experiment_id", ophys_experiment_id)
    IN  IF WrongCount(rows) THEN Raised("RuntimeError", 1)
        ELSE FileIdOf(rows[1][file_id_column], 1)

Resolve(getter, bt, et, id) ==
    IF getter = "get_behavior_session"
    THEN ResolveBehaviorSession(bt, et, id)
    ELSE ResolveExperiment(et, id)

Getters == {"get_behavior_session", "get_behavior_ophys_experiment"}
RecordIds == {1, 2, 3}

IdleCall ==
    [pc |-> "idle", getter |-> "", id |-> 0, outcome |-> "",
     file_id |-> "", lookups |-> 0, path |-> ""]

\* The rows of the released tables as read_csv reads them.
BehaviorRows ==
    { BehaviorRow(PyInt(1), PyInt(10), None),
      BehaviorRow(PyInt(2), None, Text(T_List12)),
      BehaviorRow(PyInt(2), None, Text(<<"[", "2", ",", "1", "]">>)),
      BehaviorRow(PyInt(1), None, Text(<<"[", "]">>)),
      BehaviorRow(PyInt(1), PyInt(40), Text(T_List1)),
      BehaviorRow(PyInt(3), None, None),
      BehaviorRow(PyInt(3), None, Text(T_StrAB)) }

ExperimentRows ==
    { ExperimentRow(PyInt(1), PyInt(20), Text(T_SstList)),
      ExperimentRow(PyInt(2), PyInt(30), Text(T_SstList)),
      ExperimentRow(PyInt(1), None, Text(T_ListAB)) }

\* The table an API object holds: the file, through literal_col_eval.
Loaded(cols, rows) == LiteralColEval(Frame(cols, rows)).df

getIdle ==
    /\ behavior_only_session_table = EmptyFrame
    /\ experiment_table = EmptyFrame
    /\ callers = {}
    /\ call = [t \in 1..NThreads |-> IdleCall]
    /\ lock = <<>> /\ cached = {} /\ downloads = <<>>

InitGet ==
    /\ \E rows \in SeqsUpTo(BehaviorRows, MaxRows) :
           behavior_only_session_table = Loaded(BehaviorColumns, rows)
    /\ \E rows \in SeqsUpTo(ExperimentRows, MaxRows) :
           experiment_table = Loaded(ExperimentColumns, rows)
    /\ callers = {1}
    /\ call = [t \in 1..NThreads |-> IdleCall]
    /\ lock = <<>> /\ cached = {} /\ downloads = <<>>

\* Tables for the concurrent callers: session 2 refers to experiments 1 and 2,
\* which have their own files or share one.
ConcurrentTables ==
    { [b |-> <<BehaviorRow(PyInt(1), PyInt(10), None),
               BehaviorRow(PyInt(2), None, Text(T_List12))>>,
       e |-> <<ExperimentRow(PyInt(1), PyInt(20), Text(T_SstList)),
               ExperimentRow(PyInt(2), PyInt(30), Text(T_SstList))>>],
      [b |-> <<BehaviorRow(PyInt(1), PyInt(20), None),
               BehaviorRow(PyInt(2), None, Text(T_List12))>>,
       e |-> <<ExperimentRow(PyInt(1), PyInt(20), Text(T_SstList)),
               ExperimentRow(PyInt(2), PyInt(20), Text(T_SstList))>>] }

InitConc ==
    /\ \E p \in ConcurrentTables :
           /\ behavior_only_session_table = Loaded(BehaviorColumns, p.b)
           /\ experiment_table = Loaded(ExperimentColumns, p.e)
    /\ callers = 1..NThreads
    /\ call = [t \in 1..NThreads |-> IdleCall]
    /\ lock = <<>> /\ cached = {} /\ downloads = <<>>

\* lines 191-206 and 223-233, up to the call of cache.download_data
Get_Call(t) ==
    /\ t \in callers
    /\ call[t].pc = "idle"
    /\ \E g \in Getters, id \in RecordIds :
           LET r == Resolve(g, behavior_only_session_table, experiment_table, id)
           IN  call' = [call EXCEPT ![t] =
                   [pc |-> IF r.outcome = "download_data" THEN "download_data" ELSE "raised",
                    getter |-> g, id |-> id, outcome |-> r.outcome,
                    file_id |-> r.file_id, lookups |-> r.lookups, path |-> ""]]
    /\ UNCHANGED <<behavior_only_session_table, experiment_table, callers,
                   lock, cached, downloads>>
    /\ UNCHANGED <<vcVars, evalVars, ctorVars>>

(***************************************************************************)
(* cache.download_data(file_id): one holder per file identifier populates  *)
(* the entry; a hit needs no download; the path is returned once the entry *)
(* is installed.                                                           *)
(***************************************************************************)
LocalPath(fid) == "cache/" \o fid \o ".nwb"

Occurrences(q, x) == Cardinality({k \in 1..Len(q) : q[k] = x})

MayPopulateAlways(fid) == TRUE

\* no other call is populating the entry of this file identifier
MayPopulate(fid) == fid \notin DOMAIN lock

Cache_Acquire(t) ==
    /\ t \in callers
    /\ call[t].pc = "download_data"
    /\ MayPopulate(call[t].file_id)
    /\ lock' = (call[t].file_id :> t) @@ lock
    /\ call' = [call EXCEPT ![t].pc = "populate"]
    /\ UNCHANGED <<behavior_only_session_table, experiment_table, callers,
                   cached, downloads>>
    /\ UNCHANGED <<vcVars, evalVars, ctorVars>>

Cache_Populate(t) ==
    /\ t \in callers
    /\ call[t].pc = "populate"
    /\ IF call[t].file_id \in cached
       THEN UNCHANGED <<cached, downloads>>
       ELSE /\ downloads' = Append(downloads, call[t].file_id)
            /\ cached' = cached \cup {call[t].file_id}
    /\ call' = [call EXCEPT ![t].pc = "installed"]
    /\ UNCHANGED <<behavior_only_session_table, experiment_table, callers, lock>>
    /\ UNCHANGED <<vcVars, evalVars, ctorVars>>

\* download_data returns the path; lines 207 and 234 load the object from it
Cache_Return(t) ==
    /\ t \in callers
    /\ call[t].pc = "installed"
    /\ lock' = [f \in DOMAIN lock \ {call[t].file_id} |-> lock[f]]
    /\ call' = [call EXCEPT ![t].pc = "returned",
                            ![t].path = LocalPath(call[t].file_id)]
    /\ UNCHANGED <<behavior_only_session_table, experiment_table, callers,
                   cached, downloads>>
    /\ UNCHANGED <<vcVars, evalVars, ctorVars>>

NextGet ==
    \/ \E t \in 1..NThreads : Get_Call(t)
    \/ \E t \in 1..NThreads : Cache_Acquire(t)
    \/ \E t \in 1..NThreads : Cache_Populate(t)
    \/ \E t \in 1..NThreads : Cache_Return(t)

(***************************************************************************)
(* Specifications                                                          *)
(***************************************************************************)
\* The constructor.
Init == InitCtor /\ vcIdle /\ evalIdle /\ getIdle
Next == NextCtor
Spec == Init /\ [][Next]_vars

\* version_check on its own.
InitVersionCheck == InitVC /\ evalIdle /\ ctorIdle /\ getIdle
NextVersionCheck == NextVC
SpecVersionCheck == InitVersionCheck /\ [][NextVersionCheck]_vars

\* literal_col_eval on its own.
InitLiteralColEval == InitEval /\ vcIdle /\ ctorIdle /\ getIdle
NextLiteralColEval == NextEval
SpecLiteralColEval == InitLiteralColEval /\ [][NextLiteralColEval]_vars

\* One caller of the getters, over every table of the bounded rows.
InitGetters == InitGet /\ vcIdle /\ evalIdle /\ ctorIdle
NextGetters == NextGet
SpecGetters == InitGetters /\ [][NextGetters]_vars

\* Several concurrent callers of the getters.
InitConcurrent == InitConc /\ vcIdle /\ evalIdle /\ ctorIdle
SpecConcurrent == InitConcurrent /\ [][NextGetters]_vars

(***************************************************************************)
(* Properties of version_check (SpecVersionCheck)                          *)
(***************************************************************************)
NamedAllenSDK ==
    {k \in 1..Len(pipeline_versions) : pipeline_versions[k].name = "AllenSDK"}

VCDone == vc_pc \in {"returned", VersionException, "ValueError"}

\* The one AllenSDK entry's version, when there is exactly one.
DeclaredVersion == pipeline_versions[CHOOSE k \in NamedAllenSDK : TRUE].version

\* (major, minor, patch) of the versions of the model, as numbers
Triple ==
    (V_1_0_0 :> <<1, 0, 0>>) @@ (V_2_8_9 :> <<2, 8, 9>>) @@
    (V_2_9_0 :> <<2, 9, 0>>) @@ (V_2_9_1 :> <<2, 9, 1>>) @@
    (V_2_9_5 :> <<2, 9, 5>>) @@ (V_2_10_0 :> <<2, 10, 0>>) @@
    (V_3_0_0 :> <<3, 0, 0>>) @@ (V_10_0_0 :> <<10, 0, 0>>)

Precedes(a, b) ==
    \/ a[1] < b[1]
    \/ a[1] = b[1] /\ a[2] < b[2]
    \/ a[1] = b[1] /\ a[2] = b[2] /\ a[3] < b[3]

\* C1: with exactly one AllenSDK entry whose version maps to [min, max), the
\* call raises BehaviorCloudCacheVersionException exactly when the client
\* version precedes min or does not precede max in semantic-version order,
\* and returns otherwise; for [2.9.0, 3.0.0) it rejects 3.0.0 and 2.8.9 and
\* accepts 2.9.5.  (A client version that is no semantic version, such as
\* "2.9", makes the comparison itself raise ValueError.)
C1_HalfOpenInterval ==
    (/\ VCDone
     /\ Cardinality(NamedAllenSDK) = 1
     /\ DeclaredVersion \in DOMAIN compatibility
     /\ sdk_version \in DOMAIN Triple)
    => LET lim == compatibility[DeclaredVersion].AllenSDK
           outside == \/ Precedes(Triple[sdk_version], Triple[lim[1]])
                      \/ ~Precedes(Triple[sdk_version], Triple[lim[2]])
       IN  /\ vc_pc = (IF outside THEN VersionException ELSE "returned")
           /\ lim = <<V_2_9_0, V_3_0_0>> =>
                 /\ sdk_version = V_3_0_0 => vc_pc = VersionException
                 /\ sdk_version = V_2_8_9 => vc_pc = VersionException
                 /\ sdk_version = V_2_9_5 => vc_pc = "returned"

C1_Witness ==
    /\ vc_pc = VersionException
    /\ Cardinality(NamedAllenSDK) = 1
    /\ version_limits = <<V_2_9_0, V_3_0_0>>
    /\ sdk_version = V_3_0_0

\* C2: when the one AllenSDK entry's version has no entry in the
\* compatibility table, the call raises BehaviorCloudCacheVersionException
\* whatever the client version is; it never returns.
C2_UnknownVersionRaises ==
    (/\ vc_pc \notin {"select", "lookup"}
     /\ Cardinality(NamedAllenSDK) = 1
     /\ DeclaredVersion \notin DOMAIN compatibility)
    => vc_pc = VersionException

C2_Witness ==
    /\ vc_pc = VersionException
    /\ Cardinality(NamedAllenSDK) = 1
    /\ DeclaredVersion = V_2_9_1
    /\ compatibility = COMPATIBILITY
    /\ sdk_version = V_2_9_5
    /\ consulted

\* C10: with no entry named AllenSDK, or with two or more, the call raises
\* BehaviorCloudCacheVersionException without having read the compatibility
\* table, whatever the client version and the declared versions are.
C10_ExactlyOneEntry ==
    (vc_pc # "select" /\ Cardinality(NamedAllenSDK) # 1)
    => (vc_pc = VersionException /\ ~consulted)

C10_Witness ==
    /\ vc_pc = VersionException
    /\ ~consulted
    /\ Cardinality(NamedAllenSDK) = 2
    /\ \A k \in NamedAllenSDK : pipeline_versions[k].version = V_2_9_0
    /\ compatibility = COMPATIBILITY
    /\ sdk_version = V_2_9_5

(***************************************************************************)
(* Properties of the constructor (Spec)                                    *)
(***************************************************************************)
CheckPassedBefore(k) ==
    \E j \in 1..(k - 1) : log[j] = LogEntry("version_check", "returned")

CheckPassed == CheckPassedBefore(Len(log) + 1)

CheckFailed ==
    \E j \in 1..Len(log) : log[j].op = "version_check" /\ log[j].arg # "returned"

ExplicitSkip == entry.via = "__init__" /\ entry.skip_arg = "True"

AnyTableHeld == \E a \in DOMAIN api_tables : api_tables[a].held

AnyMetadataDownloaded == \E k \in 1..Len(log) : log[k].op = "download_metadata"

\* C3: a metadata table is downloaded or held, and the object exists, only
\* after version_check has returned, unless the caller passed
\* skip_version_check=True to the constructor; when the check raised, nothing
\* was downloaded, no table is held and no object exists; the check is
\* skipped only on that explicit argument, so the default constructor and
\* from_s3_cache always run it.
C3_CheckBeforeTables ==
    /\ \A k \in 1..Len(log) :
           log[k].op = "download_metadata" => (CheckPassedBefore(k) \/ ExplicitSkip)
    /\ (AnyTableHeld \/ api_pc = "constructed") => (CheckPassed \/ ExplicitSkip)
    /\ CheckFailed =>
           /\ ~AnyTableHeld
           /\ ~AnyMetadataDownloaded
           /\ api_pc \in {VersionException, "ValueError"}
    /\ skip_version_check => ExplicitSkip
    /\ (api_pc \notin {"call", "metadata", "version_check", "RuntimeError"} /\ ~ExplicitSkip)
           => (CheckPassed \/ CheckFailed)

C3_Witness ==
    /\ api_pc = "constructed"
    /\ entry.via = "from_s3_cache"
    /\ log[1] = LogEntry("version_check", "returned")
    /\ log[2] = LogEntry("download_metadata", "ophys_session_table")
    /\ \A a \in DOMAIN api_tables : api_tables[a].held

(***************************************************************************)
(* Properties of the getters, one caller (SpecGetters)                     *)
(***************************************************************************)
TheCall == call[1]
Called == TheCall.pc # "idle"

\* The indices of the rows of a table whose `column` holds the integer id.
Matching(table, column, id) ==
    {k \in 1..Len(table.rows) : table.rows[k][column] = PyInt(id)}

\* The table the getter looks its argument up in, and the column.
PrimaryMatches ==
    IF TheCall.getter = "get_behavior_session"
    THEN Matching(behavior_only_session_table, "behavior_session_id", TheCall.id)
    ELSE Matching(experiment_table, "ophys_experiment_id", TheCall.id)

NoDownloadRequested ==
    /\ TheCall.pc = "raised"
    /\ TheCall.file_id = ""
    /\ downloads = <<>>
    /\ cached = {}

\* C4 as stated: zero matching rows raise RecordNotFoundError, two or more
\* raise AmbiguousRecordError, and no download is requested.
C4_Original ==
    Called =>
        /\ Cardinality(PrimaryMatches) = 0 =>
               (TheCall.outcome = "RecordNotFoundError" /\ NoDownloadRequested)
        /\ Cardinality(PrimaryMatches) >= 2 =>
               (TheCall.outcome = "AmbiguousRecordError" /\ NoDownloadRequested)

\* What the code does in the cases of C4: a lookup whose identifier matches
\* zero rows, or two or more rows, of its table raises RuntimeError (one type
\* for both; no row is picked), and no download is requested from the cache.
C4_WrongCountRaises ==
    (Called /\ Cardinality(PrimaryMatches) # 1)
    => (TheCall.outcome = "RuntimeError" /\ TheCall.lookups = 1 /\ NoDownloadRequested)

C4_Witness ==
    /\ Called
    /\ TheCall.getter = "get_behavior_session"
    /\ Cardinality(PrimaryMatches) = 2
    /\ \E k \in PrimaryMatches :
           NotNull(behavior_only_session_table.rows[k][file_id_column])
    /\ TheCall.outcome = "RuntimeError"
    /\ TheCall.pc = "raised"

DecimalOf(x) == DecimalText[x.v]

\* The file identifier the claim expects for the row k of the session table.
ExpectedOfSession(k, fid) ==
    LET row == behavior_only_session_table.rows[k]
        ref == row["ophys_experiment_id"]
    IN  IF NotNull(row[file_id_column])
        THEN fid = DecimalOf(row[file_id_column])
        ELSE /\ ref.kind = "list"
             /\ Len(ref.items) >= 1
             /\ \E j \in 1..Len(experiment_table.rows) :
                    /\ experiment_table.rows[j]["ophys_experiment_id"] = ref.items[1]
                    /\ NotNull(experiment_table.rows[j][file_id_column])
                    /\ fid = DecimalOf(experiment_table.rows[j][file_id_column])

ExpectedOfExperiment(k, fid) ==
    /\ NotNull(experiment_table.rows[k][file_id_column])
    /\ fid = DecimalOf(experiment_table.rows[k][file_id_column])

\* A session row without a file id whose first listed experiment has exactly
\* one row in the experiment table: that row's index.
FirstReferenced(k) ==
    LET ref == behavior_only_session_table.rows[k]["ophys_experiment_id"]
    IN  IF ref.kind = "list" /\ Len(ref.items) >= 1
        THEN {j \in 1..Len(experiment_table.rows) :
                 experiment_table.rows[j]["ophys_experiment_id"] = ref.items[1]}
        ELSE {}

\* C5: the file identifier handed to the cache is, for an experiment id, the
\* file_id of that experiment's row; for a session id whose row has a file_id,
\* that file_id; for a session id whose row has no file_id, the file_id of
\* the experiment-table row of the first listed experiment id.  Wherever
\* those rows are unique and hold a file_id, the getter does request it.
C5_RightFileId ==
    Called =>
        /\ TheCall.outcome = "download_data" =>
               /\ Cardinality(PrimaryMatches) = 1
               /\ \A k \in PrimaryMatches :
                      IF TheCall.getter = "get_behavior_session"
                      THEN ExpectedOfSession(k, TheCall.file_id)
                      ELSE ExpectedOfExperiment(k, TheCall.file_id)
        /\ (/\ Cardinality(PrimaryMatches) = 1
            /\ \A k \in PrimaryMatches :
                   IF TheCall.getter = "get_behavior_session"
                   THEN \/ NotNull(behavior_only_session_table.rows[k][file_id_column])
                        \/ /\ Cardinality(FirstReferenced(k)) = 1
                           /\ \A j \in FirstReferenced(k) :
                                  NotNull(experiment_table.rows[j][file_id_column])
                   ELSE NotNull(experiment_table.rows[k][file_id_column]))
           => TheCall.outcome = "download_data"

C5_Witness ==
    /\ TheCall.pc = "returned"
    /\ TheCall.getter = "get_behavior_session"
    /\ TheCall.id = 2
    /\ behavior_only_session_table.rows =
           <<BehaviorRow(PyInt(2), None, PyList(<<PyInt(1), PyInt(2)>>))>>
    /\ experiment_table.rows =
           <<ExperimentRow(PyInt(2), PyInt(30), PyList(<<PyStr("Sst-IRES-Cre")>>)),
             ExperimentRow(PyInt(1), PyInt(20), PyList(<<PyStr("Sst-IRES-Cre")>>))>>
    /\ TheCall.file_id = "20"
    /\ downloads = <<"20">>

\* C6: when the session row has no file_id and the row of its first listed
\* experiment has none either, get_behavior_session raises: it makes the one
\* indirect lookup and no further one, and requests no download.
C6_OneLevelOnly ==
    (/\ Called
     /\ TheCall.getter = "get_behavior_session"
     /\ Cardinality(PrimaryMatches) = 1
     /\ \A k \in PrimaryMatches :
            /\ ~NotNull(behavior_only_session_table.rows[k][file_id_column])
            /\ Cardinality(FirstReferenced(k)) = 1
            /\ \A j \in FirstReferenced(k) :
                   ~NotNull(experiment_table.rows[j][file_id_column]))
    => /\ TheCall.outcome = "ValueError"
       /\ TheCall.lookups = 2
       /\ NoDownloadRequested

C6_Witness ==
    /\ TheCall.pc = "raised"
    /\ TheCall.getter = "get_behavior_session"
    /\ TheCall.id = 2
    /\ behavior_only_session_table.rows =
           <<BehaviorRow(PyInt(2), None, PyList(<<PyInt(1), PyInt(2)>>))>>
    /\ experiment_table.rows =
           <<ExperimentRow(PyInt(1), None, PyList(<<PyStr("a"), PyStr("b")>>)),
             ExperimentRow(PyInt(2), PyInt(30), PyList(<<PyStr("Sst-IRES-Cre")>>))>>
    /\ TheCall.outcome = "ValueError"
    /\ TheCall.lookups = 2

(***************************************************************************)
(* Properties of literal_col_eval (SpecLiteralColEval)                     *)
(***************************************************************************)
\* The Python value of each well-formed text of the model.
Decoded ==
    (T_SstList :> PyList(<<PyStr("Sst-IRES-Cre")>>)) @@
    (T_List12 :> PyList(<<PyInt(1), PyInt(2)>>)) @@
    (T_List3 :> PyList(<<PyInt(3)>>)) @@
    (T_List1 :> PyList(<<PyInt(1)>>)) @@
    (T_ListAB :> PyList(<<PyStr("a"), PyStr("b")>>)) @@
    (T_Nested :> PyList(<<PyList(<<PyInt(1)>>), PyList(<<>>)>>)) @@
    (T_Tuple12 :> PyTuple(<<PyInt(1), PyInt(2)>>)) @@
    (T_StrAB :> PyStr("ab")) @@
    (<<"2">> :> PyInt(2))

Configured == {Columns[k] : k \in 1..Len(Columns)}

ColumnSet(d) == {d.columns[k] : k \in 1..Len(d.columns)}

\* C7: when literal_col_eval returns, every cell of a configured column
\* (ophys_experiment_id, ophys_container_id, driver_line) present in the
\* table that held text holds the value the text denotes ("['Sst-IRES-Cre']"
\* has become the one-element list ['Sst-IRES-Cre']), null cells of those
\* columns are still null, and every other cell, the columns, and the
\* number and order of the rows are as they were.
C7_DecodesStructuredColumns ==
    eval_pc = "returned" =>
        /\ df.columns = df_in.columns
        /\ Len(df.rows) = Len(df_in.rows)
        /\ \A i \in 1..Len(df_in.rows) : \A c \in ColumnSet(df_in) :
               LET x == df_in.rows[i][c]
                   y == df.rows[i][c]
               IN  IF c \in Configured /\ x.kind = "text"
                   THEN x.toks \in DOMAIN Decoded /\ y = Decoded[x.toks]
                   ELSE y = x

C7_Witness ==
    /\ eval_pc = "returned"
    /\ df_in.columns = SessionColumns
    /\ Len(df_in.rows) = 2
    /\ df_in.rows[1]["driver_line"] = None
    /\ df.rows[1]["driver_line"] = None
    /\ df_in.rows[2]["driver_line"] = Text(T_SstList)
    /\ df.rows[2]["driver_line"] = PyList(<<PyStr("Sst-IRES-Cre")>>)
    /\ df_in.rows[2]["session_type"] = Text(T_List1)
    /\ df.rows[2]["session_type"] = Text(T_List1)

\* C8 as stated: when a cell fails to decode, nothing of the decoding is
\* applied: the DataFrame passed to literal_col_eval is as it was passed.
C8_NeverPartiallyApplied ==
    eval_pc = "raised" => df = df_in

\* What the constructor keeps of C8: when a load raised, the attribute of the
\* table being loaded is not set, and __init__ has raised: no object exists.
TableAttribute ==
    ("ophys_session_table" :> "_session_table") @@
    ("behavior_session_table" :> "_behavior_only_session_table") @@
    ("ophys_experiment_table" :> "_experiment_table")

C8_FailedLoadNotHeld ==
    api_pc = "literal_eval raised" =>
        /\ log[Len(log)].op = "download_metadata"
        /\ ~api_tables[TableAttribute[log[Len(log)].arg]].held

(***************************************************************************)
(* Properties of concurrent callers (SpecConcurrent)                       *)
(***************************************************************************)
Populating(t) == call[t].pc \in {"populate", "installed"}

\* C9: however the calls of the threads interleave, a file identifier is
\* downloaded at most once; every call that has returned returns the path of
\* its file identifier, which has then been downloaded exactly once and is
\* installed, so calls resolving to one identifier all return the same
\* path; at most one call at a time populates the entry of an identifier;
\* and a call is held back only by a call populating the same identifier.
C9_OneDownloadPerFile ==
    /\ \A k1, k2 \in 1..Len(downloads) : downloads[k1] = downloads[k2] => k1 = k2
    /\ \A t \in callers :
           call[t].pc = "returned" =>
               /\ call[t].path = LocalPath(call[t].file_id)
               /\ Occurrences(downloads, call[t].file_id) = 1
               /\ call[t].file_id \in cached
    /\ \A t1, t2 \in callers :
           (t1 # t2 /\ Populating(t1) /\ Populating(t2))
               => call[t1].file_id # call[t2].file_id
    /\ \A t1, t2 \in callers :
           (call[t1].pc = "returned" /\ call[t2].pc = "returned"
            /\ call[t1].file_id = call[t2].file_id)
               => call[t1].path = call[t2].path
    /\ \A t \in callers :
           (/\ call[t].pc = "download_data"
            /\ \A u \in callers \ {t} :
                   Populating(u) => call[u].file_id # call[t].file_id)
               => ENABLED Cache_Acquire(t)

C9_Witness ==
    /\ \A t \in 1..NThreads :
           /\ call[t].pc = "returned"
           /\ call[t].file_id = "20"
           /\ call[t].path = "cache/20.nwb"
    /\ call[1].getter = "get_behavior_session"
    /\ call[2].getter = "get_behavior_ophys_experiment"
    /\ downloads = <<"20">>

(***************************************************************************)
(* Properties of the indirect lookup of get_behavior_session (SpecGetters) *)
(***************************************************************************)
\* The call is get_behavior_session, its id has one session row, that row
\* has no file_id, and the lookup of its first listed experiment cannot give
\* one row: the list is empty, or the first listed id has zero rows or two
\* or more rows in the experiment table.
IndirectLookupFails ==
    /\ Called
    /\ TheCall.getter = "get_behavior_session"
    /\ Cardinality(PrimaryMatches) = 1
    /\ \A k \in PrimaryMatches :
           LET row == behavior_only_session_table.rows[k]
               ref == row["ophys_experiment_id"]
           IN  /\ ~NotNull(row[file_id_column])
               /\ ref.kind = "list"
               /\ \/ Len(ref.items) = 0
                  \/ Cardinality(FirstReferenced(k)) # 1

\* C11 as stated: the indirect lookup is checked like the primary one, so an
\* empty reference list, or a first listed experiment id with zero rows or
\* with two or more rows in the experiment table, makes get_behavior_session
\* raise the error of the checked lookup (RuntimeError, as for the session
\* id itself), and no download is requested.
C11_IndirectLookupChecked ==
    IndirectLookupFails
    => (TheCall.outcome = "RuntimeError" /\ NoDownloadRequested)

\* What the code does in the cases of C11: the indirect lookup has no row
\* count check.  An empty list raises IndexError at its subscript; zero or
\* several experiment rows leave a frame after squeeze() and int() of its
\* file_id column raises TypeError.  No download is requested in either case.
C11_UncheckedLookupStillRaises ==
    IndirectLookupFails
    => /\ TheCall.outcome \in {"IndexError", "TypeError"}
       /\ TheCall.outcome = "IndexError"
              <=> (\A k \in PrimaryMatches :
                       Len(behavior_only_session_table.rows[k]["ophys_experiment_id"].items) = 0)
       /\ NoDownloadRequested

\* Two experiment rows share the first listed id, one of them with a file_id.
C11_Ambiguous ==
    /\ IndirectLookupFails
    /\ \E k \in PrimaryMatches :
           /\ Cardinality(FirstReferenced(k)) = 2
           /\ \E j \in FirstReferenced(k) :
                  NotNull(experiment_table.rows[j][file_id_column])
    /\ TheCall.outcome = "TypeError"
    /\ TheCall.lookups = 2

\* The first listed id has no experiment row.
C11_Missing ==
    /\ IndirectLookupFails
    /\ \E k \in PrimaryMatches :
           /\ Len(behavior_only_session_table.rows[k]["ophys_experiment_id"].items) >= 1
           /\ FirstReferenced(k) = {}
    /\ Len(experiment_table.rows) >= 1
    /\ TheCall.outcome = "TypeError"

\* The reference list is empty.
C11_EmptyList ==
    /\ IndirectLookupFails
    /\ TheCall.outcome = "IndexError"
    /\ TheCall.lookups = 1

====
